---- MODULE Spec2Model ----
(***************************************************************************)
(* Model of the photo organizer (organize-photo-zip): the date extractors  *)
(* of exif.rs, the filters of photo_filter.rs, the path generator of       *)
(* path_generator.rs, the file writer of file_writer.rs and the            *)
(* orchestrator of organizer.rs driven by main.rs.                         *)
(*                                                                         *)
(* Text (file names, EXIF display values, messages) is a sequence of       *)
(* one-character strings, so that to_uppercase, contains, replace,         *)
(* starts_with and the regular expressions are computed as the code        *)
(* computes them.  All names of the model are ASCII and relative paths.    *)
(***************************************************************************)
EXTENDS Integers, Sequences, FiniteSets, TLC

(***************************************************************************)
(* Option and Result values                                                *)
(***************************************************************************)
None == [some |-> FALSE]

Some(v) == [some |-> TRUE, val |-> v]

Ok(v) == [ok |-> TRUE, val |-> v]

Err(msg) == [ok |-> FALSE, err |-> msg]

(***************************************************************************)
(* str primitives of the standard library, on character sequences          *)
(***************************************************************************)
LowerLetters == <<"a","b","c","d","e","f","g","h","i","j","k","l","m",
                  "n","o","p","q","r","s","t","u","v","w","x","y","z">>

UpperLetters == <<"A","B","C","D","E","F","G","H","I","J","K","L","M",
                  "N","O","P","Q","R","S","T","U","V","W","X","Y","Z">>

UpperChar(c) ==
    IF \E i \in 1..26 : LowerLetters[i] = c
    THEN UpperLetters[CHOOSE i \in 1..26 : LowerLetters[i] = c]
    ELSE c

LowerChar(c) ==
    IF \E i \in 1..26 : UpperLetters[i] = c
    THEN LowerLetters[CHOOSE i \in 1..26 : UpperLetters[i] = c]
    ELSE c

to_uppercase(s) == [i \in 1..Len(s) |-> UpperChar(s[i])]

to_lowercase(s) == [i \in 1..Len(s) |-> LowerChar(s[i])]

\* s[i .. i+Len(pat)-1] = pat
MatchesAt(s, i, pat) ==
    /\ i >= 1
    /\ i + Len(pat) - 1 <= Len(s)
    /\ SubSeq(s, i, i + Len(pat) - 1) = pat

contains(s, pat) == \E i \in 1..(Len(s) + 1) : MatchesAt(s, i, pat)

starts_with(s, pat) == MatchesAt(s, 1, pat)

ends_with(s, pat) == MatchesAt(s, Len(s) - Len(pat) + 1, pat)

\* str::replace: every non-overlapping occurrence of the non-empty pattern,
\* found left to right, is replaced
RECURSIVE replace(_, _, _)
replace(s, from, to) ==
    IF Len(s) < Len(from) THEN s
    ELSE IF MatchesAt(s, 1, from)
         THEN to \o replace(SubSeq(s, Len(from) + 1, Len(s)), from, to)
         ELSE <<s[1]>> \o replace(Tail(s), from, to)

IsWhitespace(c) == c = " "

\* split_whitespace().next(): the first maximal run of non-whitespace
RECURSIVE TakeWhileNotWhitespace(_)
TakeWhileNotWhitespace(s) ==
    IF s = <<>> \/ IsWhitespace(s[1]) THEN <<>>
    ELSE <<s[1]>> \o TakeWhileNotWhitespace(Tail(s))

RECURSIVE split_whitespace_next(_)
split_whitespace_next(s) ==
    IF s = <<>> THEN None
    ELSE IF IsWhitespace(s[1]) THEN split_whitespace_next(Tail(s))
    ELSE Some(TakeWhileNotWhitespace(s))

(***************************************************************************)
(* Decimal digits and numbers                                              *)
(***************************************************************************)
Digits == <<"0","1","2","3","4","5","6","7","8","9">>

IsDigit(c) == \E i \in 1..10 : Digits[i] = c

DigitVal(c) == (CHOOSE i \in 1..10 : Digits[i] = c) - 1

AllDigits(s) == \A i \in 1..Len(s) : IsDigit(s[i])

\* str::parse::<u32>() of a non-empty run of digits
RECURSIVE ParseNat(_)
ParseNat(s) ==
    IF s = <<>> THEN 0
    ELSE 10 * ParseNat(SubSeq(s, 1, Len(s) - 1)) + DigitVal(s[Len(s)])

\* {:0w} formatting of a natural number
RECURSIVE FormatNat(_, _)
FormatNat(n, width) ==
    IF width <= 1 /\ n < 10 THEN <<Digits[n + 1]>>
    ELSE FormatNat(n \div 10, width - 1) \o <<Digits[(n % 10) + 1]>>

(***************************************************************************)
(* chrono::NaiveDate                                                       *)
(***************************************************************************)
IsLeapYear(y) == (y % 4 = 0 /\ y % 100 # 0) \/ y % 400 = 0

DaysInMonth(y, m) ==
    IF m = 2 THEN (IF IsLeapYear(y) THEN 29 ELSE 28)
    ELSE IF m \in {4, 6, 9, 11} THEN 30 ELSE 31

ValidDate(y, m, d) ==
    /\ m \in 1..12
    /\ d >= 1
    /\ d <= DaysInMonth(y, m)

from_ymd_opt(y, m, d) ==
    IF ValidDate(y, m, d) THEN Some([year |-> y, month |-> m, day |-> d])
    ELSE None

\* the longest prefix of s made of at most max digits
RECURSIVE TakeDigits(_, _)
TakeDigits(s, max) ==
    IF max = 0 \/ s = <<>> \/ ~IsDigit(s[1]) THEN <<>>
    ELSE <<s[1]>> \o TakeDigits(Tail(s), max - 1)

\* NaiveDate::parse_from_str(s, "%Y-%m-%d"): 1..4 digits, '-', 1..2 digits,
\* '-', 1..2 digits, nothing after; then a real calendar date
parse_from_str_dashed(s) ==
    LET ys == TakeDigits(s, 4)
        r1 == SubSeq(s, Len(ys) + 1, Len(s))
        ms == TakeDigits(IF r1 = <<>> THEN <<>> ELSE Tail(r1), 2)
        r2 == SubSeq(r1, Len(ms) + 2, Len(r1))
        ds == TakeDigits(IF r2 = <<>> THEN <<>> ELSE Tail(r2), 2)
        r3 == SubSeq(r2, Len(ds) + 2, Len(r2))
    IN  IF /\ ys # <<>> /\ r1 # <<>> /\ r1[1] = "-"
           /\ ms # <<>> /\ r2 # <<>> /\ r2[1] = "-"
           /\ ds # <<>> /\ r3 = <<>>
        THEN from_ymd_opt(ParseNat(ys), ParseNat(ms), ParseNat(ds))
        ELSE None

\* NaiveDate::parse_from_str(s, "%Y%m%d") of the eight digits a pattern
\* captured: four digits of year, two of month, two of day
parse_from_str_compact(s) ==
    from_ymd_opt(ParseNat(SubSeq(s, 1, 4)), ParseNat(SubSeq(s, 5, 6)),
                 ParseNat(SubSeq(s, 7, 8)))

\* date.format("%Y") and date.format("%Y-%m-%d")
format_year(date) == FormatNat(date.year, 4)

format_full_date(date) ==
    FormatNat(date.year, 4) \o <<"-">> \o FormatNat(date.month, 2)
        \o <<"-">> \o FormatNat(date.day, 2)

(***************************************************************************)
(* Image bytes.  The exif crate's reader is outside the repository: bytes  *)
(* are modelled by what read_from_container and get_field make of them,    *)
(* whether they are a container and, per tag, the display value of the     *)
(* field if present; body tells apart byte strings with the same fields.   *)
(***************************************************************************)
Tags == {"DateTimeOriginal", "Software", "Make", "Model"}

NotAnImage(b) == [container |-> FALSE, body |-> b]

Image(b, dto, software, make, model) ==
    [container |-> TRUE, body |-> b,
     fields |-> [t \in Tags |->
                   CASE t = "DateTimeOriginal" -> dto
                     [] t = "Software" -> software
                     [] t = "Make" -> make
                     [] OTHER -> model]]

(***************************************************************************)
(* exif.rs: ExifDateExtractor                                              *)
(***************************************************************************)
read_exif_from_image(image_data) ==
    IF image_data.container THEN Ok(image_data.fields)
    ELSE Err("Failed to read EXIF data from image")

get_datetime_original_field(exif_data) ==
    IF exif_data["DateTimeOriginal"].some
    THEN Ok(exif_data["DateTimeOriginal"].val)
    ELSE Err("No DateTimeOriginal field found in EXIF data")

parse_exif_date_string(exif_date_string) ==
    LET date_part == split_whitespace_next(exif_date_string)
    IN  IF ~date_part.some THEN Err("Invalid EXIF date format")
        ELSE LET normalized_date == replace(date_part.val, <<":">>, <<"-">>)
                 parsed == parse_from_str_dashed(normalized_date)
             IN  IF parsed.some THEN Ok(parsed.val)
                 ELSE Err("Failed to parse date from EXIF")

\* faulty variant: a default date when the field is absent
ExifDefaultDate(filename, image_data) ==
    LET exif_data == read_exif_from_image(image_data)
    IN  IF ~exif_data.ok THEN exif_data
        ELSE LET field == get_datetime_original_field(exif_data.val)
             IN  IF ~field.ok THEN Ok([year |-> 1970, month |-> 1, day |-> 1])
                 ELSE parse_exif_date_string(field.val)

ExifDateExtractor_extract_date(filename, image_data) ==
    LET exif_data == read_exif_from_image(image_data)
    IN  IF ~exif_data.ok THEN exif_data
        ELSE LET field == get_datetime_original_field(exif_data.val)
             IN  IF ~field.ok THEN field
                 ELSE parse_exif_date_string(field.val)

(***************************************************************************)
(* exif.rs: FilenameBasedDateExtractor.  Each pattern has a fixed length,  *)
(* so Regex::captures finds the match with the least start index.          *)
(***************************************************************************)
DigitsAt(s, i, n) ==
    /\ i >= 1
    /\ i + n - 1 <= Len(s)
    /\ \A k \in i..(i + n - 1) : IsDigit(s[k])

\* (\d{4})-(\d{2})-(\d{2}) matches at i
DashedAt(s, i) ==
    /\ DigitsAt(s, i, 4)
    /\ MatchesAt(s, i + 4, <<"-">>)
    /\ DigitsAt(s, i + 5, 2)
    /\ MatchesAt(s, i + 7, <<"-">>)
    /\ DigitsAt(s, i + 8, 2)

\* (\d{8})_\d{6} matches at i
CompactAt(s, i) ==
    /\ DigitsAt(s, i, 8)
    /\ MatchesAt(s, i + 8, <<"_">>)
    /\ DigitsAt(s, i + 9, 6)

\* IMG_(\d{8})_\d{6} matches at i
ImgUnderscoreAt(s, i) ==
    /\ MatchesAt(s, i, <<"I", "M", "G", "_">>)
    /\ CompactAt(s, i + 4)

\* IMG-(\d{8}) matches at i
ImgDashAt(s, i) ==
    /\ MatchesAt(s, i, <<"I", "M", "G", "-">>)
    /\ DigitsAt(s, i + 4, 8)

\* the start of the leftmost match, if any
Leftmost(starts) ==
    IF starts # {}
    THEN Some(CHOOSE i \in starts : \A j \in starts : i <= j)
    ELSE None

\* faulty variant: every match is examined, the first real date is taken
TryDashedAnyMatch(filename) ==
    LET DateAt(i) == from_ymd_opt(ParseNat(SubSeq(filename, i, i + 3)),
                                  ParseNat(SubSeq(filename, i + 5, i + 6)),
                                  ParseNat(SubSeq(filename, i + 8, i + 9)))
        captures == Leftmost({i \in 1..Len(filename) :
                                 DashedAt(filename, i) /\ DateAt(i).some})
    IN  IF ~captures.some THEN None ELSE DateAt(captures.val)

try_parse_date_with_dashes(filename) ==
    LET captures == Leftmost({i \in 1..Len(filename) : DashedAt(filename, i)})
    IN  IF ~captures.some THEN None
        ELSE LET i == captures.val
             IN  from_ymd_opt(ParseNat(SubSeq(filename, i, i + 3)),
                              ParseNat(SubSeq(filename, i + 5, i + 6)),
                              ParseNat(SubSeq(filename, i + 8, i + 9)))

try_parse_compact_datetime_pattern(filename) ==
    LET captures == Leftmost({i \in 1..Len(filename) : CompactAt(filename, i)})
    IN  IF ~captures.some THEN None
        ELSE parse_from_str_compact(
                 SubSeq(filename, captures.val, captures.val + 7))

try_parse_img_underscore_pattern(filename) ==
    LET captures == Leftmost({i \in 1..Len(filename) : ImgUnderscoreAt(filename, i)})
    IN  IF ~captures.some THEN None
        ELSE parse_from_str_compact(
                 SubSeq(filename, captures.val + 4, captures.val + 11))

try_parse_img_dash_pattern(filename) ==
    LET captures == Leftmost({i \in 1..Len(filename) : ImgDashAt(filename, i)})
    IN  IF ~captures.some THEN None
        ELSE parse_from_str_compact(
                 SubSeq(filename, captures.val + 4, captures.val + 11))

\* Option::or_else
OrElse(a, b) == IF a.some THEN a ELSE b

\* faulty variant: the compact pattern is tried before the dashed one
TryPatternsCompactFirst(filename) ==
    OrElse(try_parse_compact_datetime_pattern(filename),
      OrElse(try_parse_date_with_dashes(filename),
        OrElse(try_parse_img_underscore_pattern(filename),
               try_parse_img_dash_pattern(filename))))

try_parse_patterns(filename) ==
    OrElse(try_parse_date_with_dashes(filename),
      OrElse(try_parse_compact_datetime_pattern(filename),
        OrElse(try_parse_img_underscore_pattern(filename),
               try_parse_img_dash_pattern(filename))))

\* faulty variant: a default date when no pattern gives a date
FilenameDefaultDate(filename, image_data) ==
    LET parsed == try_parse_patterns(filename)
    IN  IF parsed.some THEN Ok(parsed.val)
        ELSE Ok([year |-> 1970, month |-> 1, day |-> 1])

FilenameBasedDateExtractor_extract_date(filename, image_data) ==
    LET parsed == try_parse_patterns(filename)
    IN  IF parsed.some THEN Ok(parsed.val)
        ELSE Err("Failed to extract date from filename")

(***************************************************************************)
(* exif.rs: CompositeDateExtractor                                         *)
(***************************************************************************)
\* faulty variant: the filename is tried first, the metadata second
CompositeFilenameFirst(filename, image_data) ==
    LET byName == FilenameBasedDateExtractor_extract_date(filename, image_data)
    IN  IF byName.ok THEN byName
        ELSE ExifDateExtractor_extract_date(filename, image_data)

\* faulty variant: when both extractors fail, a default date is returned
CompositeDefaultDate(filename, image_data) ==
    LET byExif == ExifDateExtractor_extract_date(filename, image_data)
        byName == FilenameBasedDateExtractor_extract_date(filename, image_data)
    IN  IF byExif.ok THEN byExif
        ELSE IF byName.ok THEN byName
        ELSE Ok([year |-> 1970, month |-> 1, day |-> 1])

CompositeDateExtractor_extract_date(filename, image_data) ==
    LET byExif == ExifDateExtractor_extract_date(filename, image_data)
    IN  IF byExif.ok THEN byExif
        ELSE FilenameBasedDateExtractor_extract_date(filename, image_data)

(***************************************************************************)
(* photo_filter.rs                                                         *)
(***************************************************************************)
EDITED_lower == <<"-", "e", "d", "i", "t", "e", "d">>

EDITED_upper == <<"-", "E", "D", "I", "T", "E", "D">>

EDITED_title == <<"-", "E", "d", "i", "t", "e", "d">>

MIX_upper == <<"-", "M", "I", "X">>

Lightroom_lower == <<"l", "i", "g", "h", "t", "r", "o", "o", "m">>

NIKON_upper == <<"N", "I", "K", "O", "N">>

\* ExistingCollectionFilter::new: the Vec of names collected into a HashSet
ExistingCollectionFilter_new(filenames) ==
    {filenames[i] : i \in 1..Len(filenames)}

get_exif_field(image_data, tag) ==
    IF ~image_data.container THEN None ELSE image_data.fields[tag]

\* faulty variant: the name is looked up as it is, nothing is stripped
HasOriginalNoStrip(all_filenames, edited_filename) ==
    edited_filename \in all_filenames

\* faulty variant: the stripped name is looked up without regard to case
HasOriginalIgnoringCase(all_filenames, edited_filename) ==
    LET original_name ==
            replace(replace(replace(edited_filename, EDITED_lower, <<>>),
                            EDITED_upper, <<>>),
                    EDITED_title, <<>>)
    IN  \E n \in all_filenames : to_uppercase(n) = to_uppercase(original_name)

has_original_file(all_filenames, edited_filename) ==
    LET original_name ==
            replace(replace(replace(edited_filename, EDITED_lower, <<>>),
                            EDITED_upper, <<>>),
                    EDITED_title, <<>>)
    IN  original_name \in all_filenames

\* faulty variant: only the Software field is looked at
MetadataExcludesSoftwareOnly(image_data) ==
    LET software == get_exif_field(image_data, "Software")
    IN  software.some /\ contains(to_lowercase(software.val), Lightroom_lower)

\* the metadata rules of should_include (Software, Make, Model)
MetadataExcludes(image_data) ==
    LET software == get_exif_field(image_data, "Software")
        make == get_exif_field(image_data, "Make")
        model == get_exif_field(image_data, "Model")
    IN  \/ software.some /\ contains(to_lowercase(software.val), Lightroom_lower)
        \/ make.some /\ contains(to_uppercase(make.val), NIKON_upper)
        \/ model.some /\ contains(to_uppercase(model.val), NIKON_upper)

\* faulty variant: a rule that excludes every .gif is put in front of the others
ShouldIncludeGifRule(all_filenames, filename, image_data) ==
    LET filename_upper == to_uppercase(filename)
    IN  IF ends_with(filename_upper, <<".", "G", "I", "F">>) THEN FALSE
        ELSE IF contains(filename_upper, MIX_upper) THEN FALSE
        ELSE IF contains(filename_upper, EDITED_upper)
             THEN ~has_original_file(all_filenames, filename)
        ELSE ~MetadataExcludes(image_data)

\* faulty variant: -MIX is looked for in the name as written
ShouldIncludeMixAsWritten(all_filenames, filename, image_data) ==
    LET filename_upper == to_uppercase(filename)
    IN  IF contains(filename, MIX_upper) THEN FALSE
        ELSE IF contains(filename_upper, EDITED_upper)
             THEN ~has_original_file(all_filenames, filename)
        ELSE ~MetadataExcludes(image_data)

\* faulty variant: the metadata rules are applied before the marker rules
ShouldIncludeMetadataFirst(all_filenames, filename, image_data) ==
    LET filename_upper == to_uppercase(filename)
    IN  IF MetadataExcludes(image_data) THEN FALSE
        ELSE IF contains(filename_upper, MIX_upper) THEN FALSE
        ELSE IF contains(filename_upper, EDITED_upper)
             THEN ~has_original_file(all_filenames, filename)
        ELSE TRUE

ExistingCollectionFilter_should_include(all_filenames, filename, image_data) ==
    LET filename_upper == to_uppercase(filename)
    IN  IF contains(filename_upper, MIX_upper) THEN FALSE
        ELSE IF contains(filename_upper, EDITED_upper)
             THEN ~has_original_file(all_filenames, filename)
        ELSE ~MetadataExcludes(image_data)

\* faulty variant: the metadata rules are applied with filtering disabled
NoFilterMetadata(filename, image_data) == ~MetadataExcludes(image_data)

NoFilter_should_include(filename, image_data) == TRUE

(***************************************************************************)
(* The texts the model draws its inputs from                               *)
(***************************************************************************)
JPG == <<".", "j", "p", "g">>

GIF == <<".", "g", "i", "f">>

PNG == <<".", "p", "n", "g">>

\* file names for the filter
Name_a == <<"a">> \o JPG

Name_A_upper == <<"A", ".", "J", "P", "G">>

Name_a_edited == <<"a">> \o EDITED_lower \o JPG

Name_a_EDITED == <<"a">> \o EDITED_upper \o JPG

Name_a_Edited == <<"a">> \o EDITED_title \o JPG

Name_a_eDiTeD == <<"a", "-", "e", "D", "i", "T", "e", "D">> \o JPG

Name_a_edited_twice == <<"a">> \o EDITED_lower \o EDITED_upper \o JPG

Name_a_MIX == <<"a">> \o MIX_upper \o JPG

Name_a_mix == <<"a", "-", "m", "i", "x">> \o JPG

Name_a_edited_MIX == <<"a">> \o EDITED_lower \o MIX_upper \o JPG

Name_a_EFFECTS == <<"a", "-", "E", "F", "F", "E", "C", "T", "S">> \o JPG

Name_a_gif == <<"a">> \o GIF

Name_a_GIF_upper == <<"a", ".", "G", "I", "F">>

Name_a_edited_gif == <<"a">> \o EDITED_lower \o GIF

Name_a_ANIMATION_gif ==
    <<"a", "-", "A", "N", "I", "M", "A", "T", "I", "O", "N">> \o GIF

Name_T_a == <<"T", "/", "a">> \o JPG

Name_T_a_edited == <<"T", "/", "a">> \o EDITED_lower \o JPG

FilterNames ==
    {Name_a, Name_A_upper, Name_a_edited, Name_a_EDITED, Name_a_Edited,
     Name_a_eDiTeD, Name_a_edited_twice, Name_a_MIX, Name_a_mix,
     Name_a_edited_MIX, Name_a_EFFECTS, Name_a_gif, Name_a_GIF_upper,
     Name_a_edited_gif, Name_a_ANIMATION_gif, Name_T_a, Name_T_a_edited}

\* file names for the date extractors
D_2013_04_19 == <<"2", "0", "1", "3", "-", "0", "4", "-", "1", "9">>

D_2014_09_29 == <<"2", "0", "1", "4", "-", "0", "9", "-", "2", "9">>

D_2014_13_29 == <<"2", "0", "1", "4", "-", "1", "3", "-", "2", "9">>

D_2014_00_10 == <<"2", "0", "1", "4", "-", "0", "0", "-", "1", "0">>

D_2015_02_29 == <<"2", "0", "1", "5", "-", "0", "2", "-", "2", "9">>

D_2016_02_29 == <<"2", "0", "1", "6", "-", "0", "2", "-", "2", "9">>

D_2025_10_28 == <<"2", "0", "2", "5", "-", "1", "0", "-", "2", "8">>

D_2012_10_06 == <<"2", "0", "1", "2", "-", "1", "0", "-", "0", "6">>

C_20151115_143914 ==
    <<"2", "0", "1", "5", "1", "1", "1", "5", "_",
      "1", "4", "3", "9", "1", "4">>

C_20151345_143914 ==
    <<"2", "0", "1", "5", "1", "3", "4", "5", "_",
      "1", "4", "3", "9", "1", "4">>

C_20130106_160818 ==
    <<"2", "0", "1", "3", "0", "1", "0", "6", "_",
      "1", "6", "0", "8", "1", "8">>

C_20150130 == <<"2", "0", "1", "5", "0", "1", "3", "0">>

C_20151301 == <<"2", "0", "1", "5", "1", "3", "0", "1">>

IMG_us == <<"I", "M", "G", "_">>

IMG_dash == <<"I", "M", "G", "-">>

\* Screenshot_2013-04-19-19-46-43.png
Name_screenshot ==
    <<"S", "c", "r", "e", "e", "n", "s", "h", "o", "t", "_">> \o D_2013_04_19
        \o <<"-", "1", "9", "-", "4", "6", "-", "4", "3">> \o PNG

\* 20151115_143914-ANIMATION.gif
Name_animation ==
    C_20151115_143914
        \o <<"-", "A", "N", "I", "M", "A", "T", "I", "O", "N">> \o GIF

\* IMG_20130106_160818.JPG
Name_img_underscore == IMG_us \o C_20130106_160818 \o <<".", "J", "P", "G">>

\* IMG-20150130-WA0001.jpg
Name_img_dash ==
    IMG_dash \o C_20150130 \o <<"-", "W", "A", "0", "0", "0", "1">> \o JPG

Name_simple_date == D_2014_09_29 \o JPG

\* random_file.jpg
Name_random ==
    <<"r", "a", "n", "d", "o", "m", "_", "f", "i", "l", "e">> \o JPG

Name_month13 == D_2014_13_29 \o JPG

Name_not_leap == D_2015_02_29 \o JPG

Name_leap == D_2016_02_29 \o JPG

\* an impossible dashed date, then a valid IMG- date
Name_bad_dashed_img_dash == D_2014_00_10 \o <<"_">> \o IMG_dash \o C_20150130 \o JPG

\* an impossible dashed date, then a valid compact date
Name_bad_dashed_compact == D_2014_13_29 \o <<"_">> \o C_20151115_143914 \o JPG

\* a valid dashed date and a valid compact date
Name_dashed_and_compact == C_20151115_143914 \o <<"_">> \o D_2013_04_19 \o JPG

\* an impossible dashed date on the left, a valid one on the right
Name_bad_then_good_dashed == D_2014_13_29 \o <<"_">> \o D_2014_09_29 \o JPG

Name_bad_compact == C_20151345_143914 \o JPG

\* an impossible compact date on the left, a valid IMG_ date on the right
Name_bad_compact_img_us ==
    C_20151345_143914 \o <<"_">> \o IMG_us \o C_20130106_160818 \o JPG

Name_bad_img_dash == IMG_dash \o C_20151301 \o JPG

DateNames ==
    {Name_screenshot, Name_animation, Name_img_underscore, Name_img_dash,
     Name_simple_date, Name_random, Name_month13, Name_not_leap, Name_leap,
     Name_bad_dashed_img_dash, Name_bad_dashed_compact,
     Name_dashed_and_compact, Name_bad_then_good_dashed, Name_bad_compact,
     Name_bad_compact_img_us, Name_bad_img_dash}

\* display values of EXIF fields
TimeOfDay == <<" ", "1", "3", ":", "0", "9", ":", "3", "2">>

Dto_2012_10_06 == D_2012_10_06 \o TimeOfDay

Dto_2012_10_06_colons ==
    <<"2", "0", "1", "2", ":", "1", "0", ":", "0", "6">> \o TimeOfDay

Dto_2013_04_19 == D_2013_04_19 \o TimeOfDay

Dto_2025_10_28 == D_2025_10_28 \o TimeOfDay

Dto_month13 == D_2014_13_29 \o TimeOfDay

Dto_not_leap == D_2015_02_29 \o TimeOfDay

Dto_unknown == <<"u", "n", "k", "n", "o", "w", "n">>

Dto_blank == <<" ", " ">>

Dto_trailing == D_2012_10_06 \o <<"T", "1", "3">>

Software_lightroom ==
    <<"A", "d", "o", "b", "e", " ", "L", "i", "g", "h", "t", "r", "o", "o", "m">>

Software_gimp == <<"G", "I", "M", "P">>

Make_nikon == <<"N", "i", "k", "o", "n">>

Make_canon == <<"C", "a", "n", "o", "n">>

Model_nikon == <<"N", "I", "K", "O", "N", " ", "D", "9", "0">>

Model_pixel == <<"P", "i", "x", "e", "l">>

NoExif == NotAnImage(0)

ExifOnlyDate(dto) == Image(1, Some(dto), None, None, None)

DateImages ==
    {NoExif, Image(1, None, None, None, None),
     ExifOnlyDate(Dto_2012_10_06), ExifOnlyDate(Dto_2012_10_06_colons),
     ExifOnlyDate(Dto_2013_04_19), ExifOnlyDate(Dto_month13),
     ExifOnlyDate(Dto_not_leap), ExifOnlyDate(Dto_unknown),
     ExifOnlyDate(Dto_blank), ExifOnlyDate(Dto_trailing)}

FilterImages ==
    {NoExif,
     Image(1, Some(Dto_2012_10_06), Some(Software_gimp), Some(Make_canon),
           Some(Model_pixel)),
     Image(1, Some(Dto_2012_10_06), Some(Software_lightroom), None, None),
     Image(1, None, None, Some(Make_nikon), None),
     Image(1, None, Some(Software_gimp), Some(Make_canon), Some(Model_nikon))}

(***************************************************************************)
(* Paths: a path is the sequence of its components, each a text.  The      *)
(* output tree is kept relative to base_output_dir.                        *)
(***************************************************************************)
RECURSIVE TakeWhileNotSlash(_)
TakeWhileNotSlash(s) ==
    IF s = <<>> \/ s[1] = "/" THEN <<>>
    ELSE <<s[1]>> \o TakeWhileNotSlash(Tail(s))

\* the components of a relative path given as text
RECURSIVE RelativeComponents(_)
RelativeComponents(s) ==
    IF s = <<>> THEN <<>>
    ELSE LET head == TakeWhileNotSlash(s)
             rest == SubSeq(s, Len(head) + 2, Len(s))
         IN  (IF head = <<>> THEN <<>> ELSE <<head>>)
                 \o RelativeComponents(rest)

\* the root component an absolute path starts with
RootDir == <<"/">>

\* the components of a path given as text: a text that starts with "/" is
\* an absolute path
Components(s) ==
    IF s # <<>> /\ s[1] = "/" THEN <<RootDir>> \o RelativeComponents(s)
    ELSE RelativeComponents(s)

is_absolute(path) == path # <<>> /\ path[1] = RootDir

\* PathBuf::join: an absolute path replaces the path it is joined to
path_join(path, other) == IF is_absolute(other) THEN other ELSE path \o other

\* Path::parent
path_parent(path) ==
    IF path = <<>> THEN None ELSE Some(SubSeq(path, 1, Len(path) - 1))

Prefixes(path, k) == {SubSeq(path, 1, n) : n \in 1..k}

base_output_dir == << <<"o", "u", "t">> >>

(***************************************************************************)
(* file_writer.rs: RealFileSystemWriter over the tree (dirs, files)        *)
(***************************************************************************)
get_full_path(path) == path_join(base_output_dir, path)

get_matching_directory(dir_name, date_prefix) ==
    IF starts_with(dir_name, date_prefix) THEN Some(dir_name) ELSE None

\* faulty variant: the scan of the year directory never finds anything
FindExistingDateDirectoryBlind(tree_dirs, tree_files, year_path, date_prefix) ==
    {None}

\* The set of values find_existing_date_directory may return: read_dir
\* yields the entries in an order the file system chooses, and the first
\* matching directory is returned.
find_existing_date_directory(tree_dirs, tree_files, year_path, date_prefix) ==
    IF year_path \notin tree_dirs THEN {None}
    ELSE LET children == {p \in tree_dirs :
                             /\ Len(p) = Len(year_path) + 1
                             /\ SubSeq(p, 1, Len(year_path)) = year_path}
             matching == {get_matching_directory(p[Len(p)], date_prefix) :
                             p \in children} \ {None}
         IN  IF matching = {} THEN {None} ELSE matching

\* fs::create_dir_all fails when a file is in the way
FileInTheWay(tree_files, path) ==
    \E n \in 1..Len(path) : SubSeq(path, 1, n) \in DOMAIN tree_files

create_directory_ok(tree_dirs, path) == tree_dirs \cup Prefixes(path, Len(path))

\* the trees a failed create_dir_all may leave: the first k components made
create_directory_failed(tree_dirs, tree_files, path) ==
    {tree_dirs \cup Prefixes(path, k) :
        k \in {n \in 0..(Len(path) - 1) : ~FileInTheWay(tree_files, SubSeq(path, 1, n))}}

\* faulty variant: a file already at the path is left as it is
WriteFileKeepsExisting(tree_files, path, data) ==
    [p \in (DOMAIN tree_files) \cup {path} |->
        IF p \in DOMAIN tree_files THEN tree_files[p] ELSE data]

\* File::create truncates or creates the file, write_all stores the bytes
write_file_ok(tree_files, path, data) ==
    [p \in (DOMAIN tree_files) \cup {path} |->
        IF p = path THEN data ELSE tree_files[p]]

\* what is left of the bytes when write_all fails after File::create
Truncated == NotAnImage(0 - 1)

(***************************************************************************)
(* path_generator.rs                                                       *)
(***************************************************************************)
\* faulty variant: the existing directory is ignored
GeneratePathPlain(date, filename, existing_dir) ==
    path_join(<<format_year(date), format_full_date(date)>>,
              Components(filename))

\* existing_dir is what find_existing_date_directory returned
generate_path(date, filename, existing_dir) ==
    LET year == format_year(date)
        full_date == format_full_date(date)
        date_dir == IF existing_dir.some THEN existing_dir.val ELSE full_date
    IN  path_join(path_join(<<year>>, <<date_dir>>), Components(filename))

(***************************************************************************)
(* The state of a run of the command line (main.rs, organizer.rs)          *)
(***************************************************************************)
VARIABLES
    no_filter,        \* Args.no_filter
    source,           \* what the source reader holds: a sequence of ZipEntry
    pc,               \* the place of the run in the code
    reads,            \* the results of the read_entries calls so far
    all_filenames,    \* ExistingCollectionFilter.all_filenames
    entries,          \* organize: the entries read
    idx,              \* organize: the position of the loop in entries
    total_files,      \* organize: the counters and the error list
    organized_files,
    skipped_files,
    errors,
    cur,              \* process_entry: date, scan result and target_path
    dirs,             \* the output tree: its directories
    files,            \* the output tree: its files and their bytes
    stdout,           \* the lines organize prints, one per entry
    calls,            \* the calls made on the collaborators, in order
    result,           \* what organize_with_reader returned
    exit_code,        \* the status std::process::exit was called with
    dateCall,         \* a date extractor call on its own: inputs and results
    filterCall        \* a should_include call on its own: inputs and result

vars ==
    <<no_filter, source, pc, reads, all_filenames, entries, idx, total_files,
      organized_files, skipped_files, errors, cur, dirs, files, stdout, calls,
      result, exit_code, dateCall, filterCall>>

\* bounds of the model
MaxEntries == 2

MaxFilenames == 2

ZipEntry(name, data) == [name |-> name, data |-> data]

Name_by_date == D_2025_10_28 \o PNG

EntryPool ==
    {ZipEntry(Name_a, Image(1, Some(Dto_2025_10_28), None, None, None)),
     ZipEntry(Name_a, Image(5, Some(Dto_2025_10_28), None, None, None)),
     ZipEntry(Name_a, Image(6, Some(Dto_2025_10_28), None, Some(Make_nikon),
                            None)),
     ZipEntry(Name_a_edited, Image(2, Some(Dto_2025_10_28), None, None, None)),
     ZipEntry(Name_T_a, Image(3, Some(Dto_2012_10_06), Some(Software_gimp),
                              Some(Make_canon), Some(Model_pixel))),
     ZipEntry(Name_random, NoExif),
     ZipEntry(Name_by_date, NoExif),
     ZipEntry(Name_A_upper, Image(4, Some(Dto_2012_10_06),
                                  Some(Software_lightroom), None, None))}

SeqsUpTo(S, n) == UNION {[1..k -> S] : k \in 0..n}

Sources == SeqsUpTo(EntryPool, MaxEntries)

Year_2025 == <<"2", "0", "2", "5">>

Dir_special_event ==
    D_2025_10_28 \o <<"_", "s", "p", "e", "c", "i", "a", "l", "_",
                      "e", "v", "e", "n", "t">>

\* output trees a run may start from: empty, a renamed date directory, and
\* a renamed date directory beside a plain one
InitialTrees ==
    {{},
     {<<Year_2025>>, <<Year_2025, Dir_special_event>>},
     {<<Year_2025>>, <<Year_2025, Dir_special_event>>,
      <<Year_2025, D_2025_10_28>>}}

NoFiles == [p \in {} |-> NoExif]

NoCur == [date |-> None, scan |-> None, target_path |-> <<>>]

NoCall == [called |-> FALSE]

Pending == [ok |-> FALSE, err |-> "not returned"]

Reason_extract_date ==
    <<"F", "a", "i", "l", "e", "d", " ", "t", "o", " ",
      "e", "x", "t", "r", "a", "c", "t", " ", "d", "a", "t", "e">>

Reason_create_directory ==
    <<"F", "a", "i", "l", "e", "d", " ", "t", "o", " ", "c", "r", "e", "a",
      "t", "e", " ", "d", "i", "r", "e", "c", "t", "o", "r", "y">>

Reason_write_file ==
    <<"F", "a", "i", "l", "e", "d", " ", "t", "o", " ",
      "w", "r", "i", "t", "e", " ", "f", "i", "l", "e">>

\* format!("{}: {}", entry.name, e)
format_error(name, e) == name \o <<":", " ">> \o e

Init ==
    /\ no_filter \in BOOLEAN
    /\ source \in Sources
    /\ dirs \in InitialTrees
    /\ files = NoFiles
    /\ pc = "collect_filenames"
    /\ reads = <<>>
    /\ all_filenames = {}
    /\ entries = <<>>
    /\ idx = 0
    /\ total_files = 0
    /\ organized_files = 0
    /\ skipped_files = 0
    /\ errors = <<>>
    /\ cur = NoCur
    /\ stdout = <<>>
    /\ calls = <<>>
    /\ result = Pending
    /\ exit_code = 0 - 1
    /\ dateCall = NoCall
    /\ filterCall = NoCall

entry == entries[idx]

\* faulty variant: a failed read is taken as an empty list of names
CollectFilenamesLenient ==
    /\ pc = "collect_filenames"
    /\ \/ /\ reads' = Append(reads, TRUE)
          /\ all_filenames' =
                 ExistingCollectionFilter_new([k \in 1..Len(source) |-> source[k].name])
       \/ /\ reads' = Append(reads, FALSE)
          /\ all_filenames' = {}
    /\ pc' = "organize"
    /\ UNCHANGED <<no_filter, source, entries, idx, total_files,
                   organized_files, skipped_files, errors, cur, dirs, files,
                   stdout, calls, result, exit_code, dateCall, filterCall>>

\* main.rs: collect_filenames and the construction of the filter.  The
\* source reader may fail at each call.
CollectFilenames ==
    /\ pc = "collect_filenames"
    /\ \/ /\ reads' = Append(reads, TRUE)
          /\ all_filenames' =
                 ExistingCollectionFilter_new([k \in 1..Len(source) |-> source[k].name])
          /\ pc' = "organize"
          /\ UNCHANGED result
       \/ /\ reads' = Append(reads, FALSE)
          /\ result' = Err("read_entries failed")
          /\ pc' = "exit"
          /\ UNCHANGED all_filenames
    /\ UNCHANGED <<no_filter, source, entries, idx, total_files,
                   organized_files, skipped_files, errors, cur, dirs, files,
                   stdout, calls, exit_code, dateCall, filterCall>>

\* organizer.rs: organize, up to the loop
OrganizeRead ==
    /\ pc = "organize"
    /\ \/ /\ reads' = Append(reads, TRUE)
          /\ entries' = source
          /\ total_files' = Len(source)
          /\ organized_files' = 0
          /\ skipped_files' = 0
          /\ errors' = <<>>
          /\ idx' = 1
          /\ pc' = "filter"
          /\ UNCHANGED result
       \/ /\ reads' = Append(reads, FALSE)
          /\ result' = Err("Failed to read ZIP entries")
          /\ pc' = "exit"
          /\ UNCHANGED <<entries, total_files, organized_files,
                         skipped_files, errors, idx>>
    /\ UNCHANGED <<no_filter, source, all_filenames, cur, dirs, files,
                   stdout, calls, exit_code, dateCall, filterCall>>

\* the loop goes on to the next entry
NextEntry ==
    /\ idx' = idx + 1
    /\ pc' = "filter"
    /\ cur' = NoCur

\* faulty variant: a filtered-out entry is not counted
ArmFilteredUncounted ==
    /\ stdout' = Append(stdout, [name |-> entry.name, kind |-> "filtered out"])
    /\ NextEntry
    /\ UNCHANGED <<skipped_files, organized_files, errors, result>>

\* faulty variant: an excluded entry is counted and processed all the same
ArmFilteredContinues ==
    /\ stdout' = Append(stdout, [name |-> entry.name, kind |-> "filtered out"])
    /\ skipped_files' = skipped_files + 1
    /\ pc' = "extract_date"
    /\ UNCHANGED <<idx, cur, organized_files, errors, result>>

\* organize: the entry the filter excludes (lines 85-89)
ArmFiltered ==
    /\ stdout' = Append(stdout, [name |-> entry.name, kind |-> "filtered out"])
    /\ skipped_files' = skipped_files + 1
    /\ NextEntry
    /\ UNCHANGED <<organized_files, errors, result>>

\* organize: process_entry returned Ok(target_path) (lines 92-95)
ArmOk(target_path) ==
    /\ stdout' = Append(stdout, [name |-> entry.name, kind |-> "copied to",
                                 path |-> target_path])
    /\ organized_files' = organized_files + 1
    /\ NextEntry
    /\ UNCHANGED <<skipped_files, errors, result>>

\* faulty variant: the error of an entry is returned from organize with `?`
ArmErrPropagates(e) ==
    /\ result' = Err(e)
    /\ pc' = "exit"
    /\ UNCHANGED <<stdout, skipped_files, organized_files, errors, idx, cur>>

\* faulty variant: the entry is counted as skipped, its message is not recorded
ArmErrSilent(e) ==
    /\ stdout' = Append(stdout, [name |-> entry.name, kind |-> "error",
                                 reason |-> e])
    /\ skipped_files' = skipped_files + 1
    /\ NextEntry
    /\ UNCHANGED <<organized_files, errors, result>>

\* organize: process_entry returned Err(e) (lines 96-100)
ArmErr(e) ==
    /\ stdout' = Append(stdout, [name |-> entry.name, kind |-> "error",
                                 reason |-> e])
    /\ skipped_files' = skipped_files + 1
    /\ errors' = Append(errors, format_error(entry.name, e))
    /\ NextEntry
    /\ UNCHANGED <<organized_files, result>>

\* organize: the filter is applied to the next entry
ApplyFilter ==
    /\ pc = "filter"
    /\ idx <= Len(entries)
    /\ calls' = Append(calls, <<"should_include", idx>>)
    /\ LET include ==
               IF no_filter
               THEN NoFilter_should_include(entry.name, entry.data)
               ELSE ExistingCollectionFilter_should_include(
                        all_filenames, entry.name, entry.data)
       IN  IF include
           THEN /\ pc' = "extract_date"
                /\ UNCHANGED <<idx, cur, stdout, skipped_files,
                               organized_files, errors, result>>
           ELSE ArmFiltered
    /\ UNCHANGED <<no_filter, source, reads, all_filenames, entries,
                   total_files, dirs, files, exit_code, dateCall, filterCall>>

\* faulty variant: an entry without a date gets a directory before it fails
ExtractDateMakesUnknownDir ==
    /\ pc = "extract_date"
    /\ calls' = Append(calls, <<"extract_date", idx>>)
    /\ LET date == CompositeDateExtractor_extract_date(entry.name, entry.data)
       IN  IF date.ok
           THEN /\ cur' = [cur EXCEPT !.date = Some(date.val)]
                /\ pc' = "generate_path"
                /\ UNCHANGED <<idx, stdout, skipped_files, organized_files,
                               errors, result, dirs>>
           ELSE /\ dirs' = dirs \cup {<<<<"u", "n", "k", "n", "o", "w", "n">>>>}
                /\ ArmErr(Reason_extract_date)
    /\ UNCHANGED <<no_filter, source, reads, all_filenames, entries,
                   total_files, files, exit_code, dateCall, filterCall>>

\* process_entry: the date is extracted (lines 113-114)
ExtractDate ==
    /\ pc = "extract_date"
    /\ calls' = Append(calls, <<"extract_date", idx>>)
    /\ LET date == CompositeDateExtractor_extract_date(entry.name, entry.data)
       IN  IF date.ok
           THEN /\ cur' = [cur EXCEPT !.date = Some(date.val)]
                /\ pc' = "generate_path"
                /\ UNCHANGED <<idx, stdout, skipped_files, organized_files,
                               errors, result>>
           ELSE ArmErr(Reason_extract_date)
    /\ UNCHANGED <<no_filter, source, reads, all_filenames, entries,
                   total_files, dirs, files, exit_code, dateCall, filterCall>>

\* process_entry: the target path is generated (line 116)
GeneratePath ==
    /\ pc = "generate_path"
    /\ calls' = Append(calls, <<"find_existing_date_directory", idx>>)
    /\ \E existing_dir \in find_existing_date_directory(
                               dirs, files, <<format_year(cur.date.val)>>,
                               format_full_date(cur.date.val)) :
           cur' = [cur EXCEPT
                     !.scan = existing_dir,
                     !.target_path =
                         generate_path(cur.date.val, entry.name, existing_dir)]
    /\ pc' = "create_directory"
    /\ UNCHANGED <<no_filter, source, reads, all_filenames, entries, idx,
                   total_files, organized_files, skipped_files, errors, dirs,
                   files, stdout, result, exit_code, dateCall, filterCall>>

\* process_entry: ensure_parent_directory_exists (lines 118, 125-131)
CreateDirectory ==
    /\ pc = "create_directory"
    /\ calls' = Append(calls, <<"create_directory", idx>>)
    /\ LET parent == path_parent(cur.target_path).val
       IN  \/ /\ ~FileInTheWay(files, parent)
              /\ dirs' = create_directory_ok(dirs, parent)
              /\ pc' = "write_file"
              /\ UNCHANGED <<idx, cur, stdout, skipped_files,
                             organized_files, errors, result>>
           \/ /\ dirs' \in create_directory_failed(dirs, files, parent)
              /\ ArmErr(Reason_create_directory)
    /\ UNCHANGED <<no_filter, source, reads, all_filenames, entries,
                   total_files, files, exit_code, dateCall, filterCall>>

\* process_entry: write_file and the return of the full path (lines 119-122)
WriteFile ==
    /\ pc = "write_file"
    /\ calls' = Append(calls, <<"write_file", idx>>)
    /\ \/ /\ cur.target_path \notin dirs
          /\ files' = write_file_ok(files, cur.target_path, entry.data)
          /\ ArmOk(get_full_path(cur.target_path))
       \/ /\ UNCHANGED files
          /\ ArmErr(Reason_write_file)
       \/ /\ cur.target_path \notin dirs
          /\ files' = write_file_ok(files, cur.target_path, Truncated)
          /\ ArmErr(Reason_write_file)
    /\ UNCHANGED <<no_filter, source, reads, all_filenames, entries,
                   total_files, dirs, exit_code, dateCall, filterCall>>

\* organize: the result is returned after the loop (lines 104-109)
OrganizeReturn ==
    /\ pc = "filter"
    /\ idx > Len(entries)
    /\ result' = Ok([total_files |-> total_files,
                     organized_files |-> organized_files,
                     skipped_files |-> skipped_files,
                     errors |-> errors])
    /\ pc' = "exit"
    /\ UNCHANGED <<no_filter, source, reads, all_filenames, entries, idx,
                   total_files, organized_files, skipped_files, errors, cur,
                   dirs, files, stdout, calls, exit_code, dateCall,
                   filterCall>>

\* faulty variant: the process exits with status 0 whatever the result
DisplayResultsExitZero ==
    /\ pc = "exit"
    /\ exit_code' = 0
    /\ pc' = "done"
    /\ UNCHANGED <<no_filter, source, reads, all_filenames, entries, idx,
                   total_files, organized_files, skipped_files, errors, cur,
                   dirs, files, stdout, calls, result, dateCall, filterCall>>

\* main.rs: display_results_and_exit
DisplayResultsAndExit ==
    /\ pc = "exit"
    /\ exit_code' = IF result.ok THEN 0 ELSE 1
    /\ pc' = "done"
    /\ UNCHANGED <<no_filter, source, reads, all_filenames, entries, idx,
                   total_files, organized_files, skipped_files, errors, cur,
                   dirs, files, stdout, calls, result, dateCall, filterCall>>

Next ==
    \/ CollectFilenames
    \/ OrganizeRead
    \/ ApplyFilter
    \/ ExtractDate
    \/ GeneratePath
    \/ CreateDirectory
    \/ WriteFile
    \/ OrganizeReturn
    \/ DisplayResultsAndExit

Spec == Init /\ [][Next]_vars

(***************************************************************************)
(* The date extractors and the filter on their own: the inputs are drawn   *)
(* from the texts above, no run is in progress.                            *)
(***************************************************************************)
NoRun ==
    /\ no_filter = FALSE
    /\ source = <<>>
    /\ dirs = {}
    /\ files = NoFiles
    /\ reads = <<>>
    /\ entries = <<>>
    /\ idx = 0
    /\ total_files = 0
    /\ organized_files = 0
    /\ skipped_files = 0
    /\ errors = <<>>
    /\ cur = NoCur
    /\ stdout = <<>>
    /\ calls = <<>>
    /\ result = Pending
    /\ exit_code = 0 - 1

runVars ==
    <<no_filter, source, reads, entries, idx, total_files, organized_files,
      skipped_files, errors, cur, dirs, files, stdout, calls, result,
      exit_code>>

InitDate ==
    /\ NoRun
    /\ pc = "extractors"
    /\ all_filenames = {}
    /\ dateCall = NoCall
    /\ filterCall = NoCall

\* The three implementations of DateExtractor::extract_date on one input.
\* The extractors keep no state: one call stands for every call.
ExtractDateCall ==
    /\ pc = "extractors"
    /\ ~dateCall.called
    /\ \E filename \in DateNames \cup {Name_a}, image_data \in DateImages :
           dateCall' =
               [called |-> TRUE,
                filename |-> filename,
                image_data |-> image_data,
                exif |-> ExifDateExtractor_extract_date(filename, image_data),
                byName |-> FilenameBasedDateExtractor_extract_date(
                               filename, image_data),
                composite |-> CompositeDateExtractor_extract_date(
                                  filename, image_data)]
    /\ UNCHANGED <<runVars, pc, all_filenames, filterCall>>

NextDate == ExtractDateCall

SpecDate == InitDate /\ [][NextDate]_vars

InitFilter ==
    /\ NoRun
    /\ pc = "new_filter"
    /\ all_filenames = {}
    /\ dateCall = NoCall
    /\ filterCall = NoCall

\* ExistingCollectionFilter::new on a list of names
NewFilter ==
    /\ pc = "new_filter"
    /\ \E filenames \in SeqsUpTo(FilterNames, MaxFilenames) :
           all_filenames' = ExistingCollectionFilter_new(filenames)
    /\ pc' = "filter_built"
    /\ UNCHANGED <<runVars, dateCall, filterCall>>

\* ExistingCollectionFilter::should_include on one input.  The call leaves
\* the filter as it is: one call per filter stands for every call.
ShouldIncludeCall ==
    /\ pc = "filter_built"
    /\ ~filterCall.called
    /\ \E filename \in FilterNames, image_data \in FilterImages :
           filterCall' =
               [called |-> TRUE,
                filename |-> filename,
                image_data |-> image_data,
                result |-> ExistingCollectionFilter_should_include(
                               all_filenames, filename, image_data)]
    /\ UNCHANGED <<runVars, pc, all_filenames, dateCall>>

NextFilter ==
    \/ NewFilter
    \/ ShouldIncludeCall

SpecFilter == InitFilter /\ [][NextFilter]_vars

(***************************************************************************)
(* PathGenerator::generate_path on its own: a date, a file name and what   *)
(* the scan of the output tree returned.                                   *)
(***************************************************************************)
PathYears == {987, 2024}

PathDates ==
    {[year |-> y, month |-> m, day |-> d] :
        y \in PathYears, m \in 1..12, d \in 1..31} \cap
    {date \in [year : PathYears, month : 1..12, day : 1..31] :
        ValidDate(date.year, date.month, date.day)}

Name_abs_a == <<"/">> \o Name_a

PathNames == {Name_a, Name_T_a, Name_abs_a}

PathScans == {None, Some(Dir_special_event)}

InitPath ==
    /\ NoRun
    /\ pc = "path_generator"
    /\ all_filenames = {}
    /\ dateCall = NoCall
    /\ filterCall = NoCall

\* generate_path keeps no state: one call stands for every call
GeneratePathCall ==
    /\ pc = "path_generator"
    /\ \E date \in PathDates, filename \in PathNames,
          existing_dir \in PathScans :
           /\ cur' = [date |-> Some(date),
                      scan |-> existing_dir,
                      target_path |-> generate_path(date, filename, existing_dir)]
           /\ calls' = << <<"generate_path", filename>> >>
    /\ pc' = "path_generated"
    /\ UNCHANGED <<no_filter, source, reads, all_filenames, entries, idx,
                   total_files, organized_files, skipped_files, errors, dirs,
                   files, stdout, result, exit_code, dateCall, filterCall>>

NextPath == GeneratePathCall

SpecPath == InitPath /\ [][NextPath]_vars

(***************************************************************************)
(* organizer.rs: PhotoOrganizer::validate_no_orphaned_edits on its own     *)
(***************************************************************************)
Found_text ==
    <<"F", "o", "u", "n", "d", " ">>

WithoutOriginals_text ==
    <<" ", "-", "e", "d", "i", "t", "e", "d", " ", "f", "i", "l", "e", "(",
      "s", ")", " ", "w", "i", "t", "h", "o", "u", "t", " ", "o", "r", "i",
      "g", "i", "n", "a", "l", "s", ":", "\n">>

ToPreserve_text ==
    <<"\n", "\n", "T", "o", " ", "p", "r", "e", "s", "e", "r", "v", "e",
      " ", "t", "h", "e", "s", "e", " ", "p", "h", "o", "t", "o", "s", ",",
      " ", "u", "s", "e", " ", "-", "-", "n", "o", "-", "f", "i", "l", "t",
      "e", "r", " ", "t", "o", " ", "o", "r", "g", "a", "n", "i", "z", "e",
      " ", "a", "l", "l", " ", "f", "i", "l", "e", "s", ".">>

\* usize formatted with {}
RECURSIVE format_usize(_)
format_usize(n) ==
    IF n < 10 THEN <<Digits[n + 1]>>
    ELSE format_usize(n \div 10) \o <<Digits[(n % 10) + 1]>>

\* orphans.join("\n")
RECURSIVE join_lines(_)
join_lines(names) ==
    IF names = <<>> THEN <<>>
    ELSE IF Len(names) = 1 THEN names[1]
    ELSE names[1] \o <<"\n">> \o join_lines(Tail(names))

\* faulty variant: the marker is removed in whatever letter case it has
IsOrphanAnyCase(entries_read, edited) ==
    /\ contains(to_uppercase(edited.name), EDITED_upper)
    /\ ~\E k \in 1..Len(entries_read) :
           to_uppercase(entries_read[k].name)
               = replace(to_uppercase(edited.name), EDITED_upper, <<>>)

\* the entry is an -edited file and no entry has its original_name
is_orphan(entries_read, edited) ==
    /\ contains(to_uppercase(edited.name), EDITED_upper)
    /\ LET original_name ==
               replace(replace(replace(edited.name, EDITED_lower, <<>>),
                               EDITED_upper, <<>>),
                       EDITED_title, <<>>)
       IN  ~\E k \in 1..Len(entries_read) :
               entries_read[k].name = original_name

\* the names pushed to orphans while the entries from rest on are visited
RECURSIVE push_orphans(_, _)
push_orphans(entries_read, rest) ==
    IF rest = <<>> THEN <<>>
    ELSE (IF is_orphan(entries_read, rest[1]) THEN <<rest[1].name>>
          ELSE <<>>) \o push_orphans(entries_read, Tail(rest))

\* read is what read_entries returned
validate_no_orphaned_edits(read) ==
    IF ~read.ok THEN Err("Failed to read ZIP entries for validation")
    ELSE LET orphans == push_orphans(read.val, read.val)
         IN  IF orphans # <<>>
             THEN Err(Found_text \o format_usize(Len(orphans))
                          \o WithoutOriginals_text \o join_lines(orphans)
                          \o ToPreserve_text)
             ELSE Ok(<<>>)

ValidateNames ==
    {Name_a, Name_A_upper, Name_a_edited, Name_a_EDITED, Name_a_eDiTeD,
     Name_a_edited_twice, Name_T_a_edited, Name_a_MIX, Name_a_edited_MIX}

InitValidate ==
    /\ no_filter = FALSE
    /\ source \in SeqsUpTo({ZipEntry(name, NoExif) : name \in ValidateNames},
                           MaxEntries)
    /\ dirs = {}
    /\ files = NoFiles
    /\ pc = "validate"
    /\ reads = <<>>
    /\ all_filenames = {}
    /\ entries = <<>>
    /\ idx = 0
    /\ total_files = 0
    /\ organized_files = 0
    /\ skipped_files = 0
    /\ errors = <<>>
    /\ cur = NoCur
    /\ stdout = <<>>
    /\ calls = <<>>
    /\ result = Pending
    /\ exit_code = 0 - 1
    /\ dateCall = NoCall
    /\ filterCall = NoCall

\* one call of validate_no_orphaned_edits; the source reader may fail
ValidateCall ==
    /\ pc = "validate"
    /\ \/ /\ reads' = Append(reads, TRUE)
          /\ result' = validate_no_orphaned_edits(Ok(source))
       \/ /\ reads' = Append(reads, FALSE)
          /\ result' = validate_no_orphaned_edits(Err("read_entries failed"))
    /\ pc' = "validated"
    /\ UNCHANGED <<no_filter, source, all_filenames, entries, idx,
                   total_files, organized_files, skipped_files, errors, cur,
                   dirs, files, stdout, calls, exit_code, dateCall,
                   filterCall>>

\* main.rs builds the filter from the names of the same source; organize
\* asks it about every entry
FilterEntriesCall ==
    /\ pc \in {"validate", "validated"}
    /\ ~filterCall.called
    /\ all_filenames' =
           ExistingCollectionFilter_new([k \in 1..Len(source) |-> source[k].name])
    /\ filterCall' =
           [called |-> TRUE,
            included |->
                [k \in 1..Len(source) |->
                    ExistingCollectionFilter_should_include(
                        all_filenames', source[k].name, source[k].data)]]
    /\ UNCHANGED <<runVars, pc, dateCall>>

NextValidate ==
    \/ ValidateCall
    \/ FilterEntriesCall

SpecValidate == InitValidate /\ [][NextValidate]_vars

(***************************************************************************)
(* zip_image_reader.rs: the archive reader on its own                      *)
(***************************************************************************)
\* faulty variant: the extension is compared without lower-casing the name
IsImageFileCaseSensitive(filename) ==
    \/ ends_with(filename, <<".", "j", "p", "g">>)
    \/ ends_with(filename, <<".", "j", "p", "e", "g">>)
    \/ ends_with(filename, <<".", "p", "n", "g">>)
    \/ ends_with(filename, <<".", "h", "e", "i", "c">>)
    \/ ends_with(filename, <<".", "h", "e", "i", "f">>)
    \/ ends_with(filename, <<".", "g", "i", "f">>)
    \/ ends_with(filename, <<".", "w", "e", "b", "p">>)
    \/ ends_with(filename, <<".", "b", "m", "p">>)
    \/ ends_with(filename, <<".", "t", "i", "f", "f">>)
    \/ ends_with(filename, <<".", "t", "i", "f">>)

is_image_file(filename) ==
    LET lower == to_lowercase(filename)
    IN  \/ ends_with(lower, <<".", "j", "p", "g">>)
        \/ ends_with(lower, <<".", "j", "p", "e", "g">>)
        \/ ends_with(lower, <<".", "p", "n", "g">>)
        \/ ends_with(lower, <<".", "h", "e", "i", "c">>)
        \/ ends_with(lower, <<".", "h", "e", "i", "f">>)
        \/ ends_with(lower, <<".", "g", "i", "f">>)
        \/ ends_with(lower, <<".", "w", "e", "b", "p">>)
        \/ ends_with(lower, <<".", "b", "m", "p">>)
        \/ ends_with(lower, <<".", "t", "i", "f", "f">>)
        \/ ends_with(lower, <<".", "t", "i", "f">>)

\* one member of the archive, as zip::ZipArchive::by_index presents it
ZipFile(name, is_dir, data) == [name |-> name, is_dir |-> is_dir, data |-> data]

\* the loop of read_entries over the members from index i on, with the
\* entries pushed so far; fail_at is the member at which by_index or
\* read_to_end fails (none when it is past the end of the archive)
RECURSIVE read_entries_from(_, _, _, _)
read_entries_from(archive, i, fail_at, pushed) ==
    IF i > Len(archive) THEN Ok(pushed)
    ELSE LET zip_file == archive[i]
         IN  IF i = fail_at
                 THEN IF zip_file.is_dir \/ ~is_image_file(zip_file.name)
                          THEN Err("Failed to read entry at index")
                          ELSE Err("Failed to read data for file")
             ELSE IF zip_file.is_dir
                 THEN read_entries_from(archive, i + 1, fail_at, pushed)
             ELSE IF ~is_image_file(zip_file.name)
                 THEN read_entries_from(archive, i + 1, fail_at, pushed)
             ELSE read_entries_from(
                      archive, i + 1, fail_at,
                      Append(pushed, ZipEntry(zip_file.name, zip_file.data)))

\* fail_at = 0: the file cannot be opened or is not a ZIP archive
FileZipImageReader_read_entries(archive, fail_at) ==
    IF fail_at = 0 THEN Err("Failed to open ZIP file")
    ELSE read_entries_from(archive, 1, fail_at, <<>>)

Name_A_Jpeg == <<"A", ".", "J", "p", "e", "g">>

Name_a_tiff == <<"a", ".", "t", "i", "f", "f">>

Name_a_HEIC == <<"a", ".", "H", "E", "I", "C">>

Name_metadata_json == <<"a", ".", "j", "s", "o", "n">>

Name_a_jpg_txt == Name_a \o <<".", "t", "x", "t">>

Name_jpg_bare == <<"j", "p", "g">>

Name_dir_T == <<"T", "/">>

Name_dir_jpg == Name_a \o <<"/">>

ArchivePool ==
    {ZipFile(Name_a, FALSE, NotAnImage(1)),
     ZipFile(Name_a, FALSE, NotAnImage(2)),
     ZipFile(Name_A_upper, FALSE, NotAnImage(3)),
     ZipFile(Name_A_Jpeg, FALSE, NotAnImage(4)),
     ZipFile(Name_a_tiff, FALSE, NotAnImage(5)),
     ZipFile(Name_a_HEIC, FALSE, NotAnImage(6)),
     ZipFile(Name_T_a, FALSE, NotAnImage(7)),
     ZipFile(Name_a_GIF_upper, FALSE, NotAnImage(8)),
     ZipFile(Name_metadata_json, FALSE, NotAnImage(9)),
     ZipFile(Name_a_jpg_txt, FALSE, NotAnImage(10)),
     ZipFile(Name_jpg_bare, FALSE, NotAnImage(11)),
     ZipFile(Name_dir_T, TRUE, NotAnImage(0)),
     ZipFile(Name_dir_jpg, TRUE, NotAnImage(0))}

InitReader ==
    /\ no_filter = FALSE
    /\ source \in SeqsUpTo(ArchivePool, MaxEntries)
    /\ dirs = {}
    /\ files = NoFiles
    /\ pc = "reader"
    /\ reads = <<>>
    /\ all_filenames = {}
    /\ entries = <<>>
    /\ idx = 0
    /\ total_files = 0
    /\ organized_files = 0
    /\ skipped_files = 0
    /\ errors = <<>>
    /\ cur = NoCur
    /\ stdout = <<>>
    /\ calls = <<>>
    /\ result = Pending
    /\ exit_code = 0 - 1
    /\ dateCall = NoCall
    /\ filterCall = NoCall

\* one call of FileZipImageReader::read_entries on the archive in source
ReadEntriesCall ==
    /\ pc = "reader"
    /\ \E fail_at \in 0..(Len(source) + 1) :
           /\ result' = FileZipImageReader_read_entries(source, fail_at)
           /\ reads' = Append(reads, result'.ok)
    /\ pc' = "read"
    /\ UNCHANGED <<no_filter, source, all_filenames, entries, idx,
                   total_files, organized_files, skipped_files, errors, cur,
                   dirs, files, stdout, calls, exit_code, dateCall,
                   filterCall>>

NextReader == ReadEntriesCall

SpecReader == InitReader /\ [][NextReader]_vars

(***************************************************************************)
(* Vocabulary of the properties                                            *)
(***************************************************************************)
LoopStages ==
    {"filter", "extract_date", "generate_path", "create_directory",
     "write_file"}

Returned == pc \in {"exit", "done"}

\* the positions of the lines of stdout of one kind, and how many there are
Positions(kind) == {k \in 1..Len(stdout) : stdout[k].kind = kind}

Count(kind) == Cardinality(Positions(kind))

\* the j-th least element of a set of numbers
NthLeast(S, j) == CHOOSE x \in S : Cardinality({y \in S : y < x}) = j - 1

\* the last path segment of a name
Basename(name) ==
    LET c == Components(name) IN IF c = <<>> THEN <<>> ELSE c[Len(c)]

\* a path printed by organize, without the output directory in front
Relative(full_path) == SubSeq(full_path, Len(base_output_dir) + 1, Len(full_path))

\* the first occurrence of pat in s is at FirstAt(s, pat)
FirstAt(s, pat) ==
    CHOOSE i \in 1..Len(s) :
        MatchesAt(s, i, pat) /\ \A j \in 1..(i - 1) : ~MatchesAt(s, j, pat)

\* s without the occurrences of pat, letter case as written
RECURSIVE Without(_, _)
Without(s, pat) ==
    IF ~contains(s, pat) THEN s
    ELSE LET i == FirstAt(s, pat)
         IN  SubSeq(s, 1, i - 1)
                 \o Without(SubSeq(s, i + Len(pat), Len(s)), pat)

\* s without the occurrences of the upper-case marker in any letter case
RECURSIVE WithoutAnyCase(_, _)
WithoutAnyCase(s, marker) ==
    IF ~contains(to_uppercase(s), marker) THEN s
    ELSE LET i == FirstAt(to_uppercase(s), marker)
         IN  SubSeq(s, 1, i - 1)
                 \o WithoutAnyCase(SubSeq(s, i + Len(marker), Len(s)), marker)

DerivativeMarkers ==
    <<MIX_upper, EDITED_upper,
      <<"-", "E", "F", "F", "E", "C", "T", "S">>,
      <<"-", "A", "N", "I", "M", "A", "T", "I", "O", "N">>,
      <<"-", "C", "O", "L", "L", "A", "G", "E">>,
      <<"-", "S", "M", "I", "L", "E">>,
      <<"-", "P", "A", "N", "O">>>>

HasDerivativeMarker(name) ==
    \E k \in 1..Len(DerivativeMarkers) :
        contains(to_uppercase(name), DerivativeMarkers[k])

\* the name with every occurrence of every marker removed, in any case
RECURSIVE WithoutMarkers(_, _)
WithoutMarkers(name, k) ==
    IF k = 0 THEN name
    ELSE WithoutAnyCase(WithoutMarkers(name, k - 1), DerivativeMarkers[k])

StrippedOfMarkers(name) == WithoutMarkers(name, Len(DerivativeMarkers))

IsGif(name) == ends_with(to_lowercase(name), GIF)

HasMix(name) == contains(to_uppercase(name), MIX_upper)

HasEdited(name) == contains(to_uppercase(name), EDITED_upper)

\* the name without "-edited", then "-EDITED", then "-Edited" as written
WithoutEditedSpellings(name) ==
    Without(Without(Without(name, EDITED_lower), EDITED_upper), EDITED_title)

\* the display value of a field, in upper case, holds the upper-case word
FieldHolds(image_data, tag, word) ==
    /\ image_data.container
    /\ image_data.fields[tag].some
    /\ contains(to_uppercase(image_data.fields[tag].val), word)

LightroomOrNikon(image_data) ==
    \/ FieldHolds(image_data, "Software", to_uppercase(Lightroom_lower))
    \/ FieldHolds(image_data, "Make", NIKON_upper)
    \/ FieldHolds(image_data, "Model", NIKON_upper)

(***************************************************************************)
(* Properties                                                              *)
(***************************************************************************)

\* C1: in the loop of organize, organized_files + skipped_files is the
\* number of entries already processed (one printed line each), which never
\* exceeds total_files; in the result organize returns, total_files is
\* organized_files + skipped_files and the number of entries of the source.
C1_TotalIsOrganizedPlusSkipped ==
    /\ pc \in LoopStages =>
           /\ organized_files + skipped_files = Len(stdout)
           /\ organized_files + skipped_files = idx - 1
           /\ organized_files + skipped_files <= total_files
    /\ (Returned /\ result.ok) =>
           /\ result.val.total_files =
                  result.val.organized_files + result.val.skipped_files
           /\ result.val.total_files = Len(source)

\* a run that organized an entry and skipped another has returned
C1_Witness ==
    /\ pc = "done"
    /\ result.ok
    /\ result.val.organized_files >= 1
    /\ result.val.skipped_files >= 1

C3_MetadataPrecedence ==
    (dateCall.called /\ dateCall.exif.ok) =>
        /\ dateCall.composite.ok
        /\ dateCall.composite.val = dateCall.exif.val

\* the filename encodes another date than the metadata
C3_Witness ==
    /\ dateCall.called
    /\ dateCall.exif.ok
    /\ dateCall.byName.ok
    /\ dateCall.byName.val # dateCall.exif.val
    /\ dateCall.composite = dateCall.exif

\* C4: once organize has read the entries, what it returns is Ok and every
\* entry has exactly one outcome (copied, filtered out or error), in source
\* order: the loop is at entry idx with idx - 1 outcomes behind it, and no
\* failure of an entry ends the run before the entries after it.
C4_EveryEntryReachesAnOutcome ==
    /\ pc \in LoopStages =>
           /\ Len(stdout) = idx - 1
           /\ Len(stdout) <= Len(entries)
    /\ (Returned /\ Len(reads) = 2 /\ reads[2]) =>
           /\ result.ok
           /\ Len(stdout) = Len(source)
    /\ \A k \in 1..Len(stdout) :
           /\ stdout[k].name = source[k].name
           /\ stdout[k].kind \in {"copied to", "filtered out", "error"}

\* the first entry failed, the second was organized
C4_Witness ==
    /\ pc = "done"
    /\ Len(stdout) = 2
    /\ stdout[1].kind = "error"
    /\ stdout[2].kind = "copied to"

\* C5: errors holds one message per entry that ended in an error, in source
\* order, each the entry's name, ": " and a non-empty reason; a filtered
\* entry adds none, so skipped_files is the number of filtered entries plus
\* the number of messages.
C5_OneMessagePerFailedEntry ==
    /\ Len(errors) = Count("error")
    /\ \A j \in 1..Len(errors) :
           LET name == source[NthLeast(Positions("error"), j)].name
           IN  /\ starts_with(errors[j], name \o <<":", " ">>)
               /\ Len(errors[j]) > Len(name) + 2
    /\ skipped_files = Count("filtered out") + Len(errors)
    /\ skipped_files >= Len(errors)
    /\ (Returned /\ result.ok) =>
           /\ result.val.errors = errors
           /\ result.val.skipped_files = skipped_files

\* a run with a filtered entry and a failed one
C5_Witness ==
    /\ pc = "done"
    /\ result.ok
    /\ Len(result.val.errors) = 1
    /\ result.val.skipped_files = 2

\* C6 as stated: the target path of an organized entry has the three
\* segments year, date directory and base name of the entry.
C6_TargetPathHasThreeSegments ==
    \A k \in Positions("copied to") :
        /\ Len(Relative(stdout[k].path)) = 3
        /\ Relative(stdout[k].path)[3] = Basename(source[k].name)

C8_ReadFailureIsFatal ==
    (\E k \in 1..Len(reads) : ~reads[k]) =>
        /\ Returned
        /\ ~result.ok
        /\ calls = <<>>
        /\ stdout = <<>>
        /\ dirs \in InitialTrees
        /\ files = NoFiles

\* the second read of a source with entries failed
C8_Witness ==
    /\ pc = "done"
    /\ reads = <<TRUE, FALSE>>
    /\ Len(source) >= 1
    /\ ~result.ok

\* C9: when the metadata extractor fails, the composite extractor returns
\* what the filename extractor returns, date or error, and a date it
\* returns is one of the two extractors' dates.
C9_FallbackToFilename ==
    dateCall.called =>
        /\ ~dateCall.exif.ok => dateCall.composite = dateCall.byName
        /\ dateCall.composite.ok =>
               \/ dateCall.exif.ok /\ dateCall.composite.val = dateCall.exif.val
               \/ dateCall.byName.ok /\ dateCall.composite.val = dateCall.byName.val

\* the metadata extractor failed and the filename gave the date
C9_Witness ==
    /\ dateCall.called
    /\ ~dateCall.exif.ok
    /\ dateCall.byName.ok
    /\ dateCall.composite = dateCall.byName

\* the directories under <year>/ whose name starts with the date string
DateDirectories(date) ==
    {p[2] : p \in {q \in dirs : /\ Len(q) = 2
                                /\ q[1] = format_year(date)
                                /\ starts_with(q[2], format_full_date(date))}}

RECURSIVE JoinText(_)
JoinText(path) ==
    IF path = <<>> THEN <<>>
    ELSE IF Len(path) = 1 THEN path[1]
    ELSE path[1] \o <<"/">> \o JoinText(Tail(path))

PathText(path) ==
    IF is_absolute(path) THEN <<"/">> \o JoinText(Tail(path))
    ELSE JoinText(path)

TwoDigits(n) == <<Digits[(n \div 10) + 1], Digits[(n % 10) + 1]>>

FourDigits(n) == TwoDigits(n \div 100) \o TwoDigits(n % 100)

\* C11 as stated: when the scan finds nothing, the path generate_path
\* returns is <YYYY>/<YYYY>-<MM>-<DD>/<filename>, the month and the day
\* written with two digits, for every valid date and every file name.
C11_PlainPathAsStated ==
    (pc = "path_generated" /\ ~cur.scan.some) =>
        LET date == cur.date.val
            filename == calls[1][2]
        IN  PathText(cur.target_path) =
                FourDigits(date.year) \o <<"/">>
                    \o FourDigits(date.year) \o <<"-">>
                    \o TwoDigits(date.month) \o <<"-">>
                    \o TwoDigits(date.day) \o <<"/">> \o filename

\* the numbers a pattern captured: year, month, day
Captured(s, year_at, month_at, day_at) ==
    [year |-> ParseNat(SubSeq(s, year_at, year_at + 3)),
     month |-> ParseNat(SubSeq(s, month_at, month_at + 1)),
     day |-> ParseNat(SubSeq(s, day_at, day_at + 1))]

\* the candidate of each pattern, in the order they are tried: what the
\* leftmost match of the pattern captured, None where it matches nowhere
PatternCandidates(s) ==
    LET dashed == {i \in 1..Len(s) : DashedAt(s, i)}
        compact == {i \in 1..Len(s) : CompactAt(s, i)}
        img_us == {i \in 1..Len(s) : ImgUnderscoreAt(s, i)}
        img_dash == {i \in 1..Len(s) : ImgDashAt(s, i)}
        eight(starts, skip) ==
            IF starts = {} THEN None
            ELSE LET i == NthLeast(starts, 1) + skip
                 IN  Some(Captured(s, i, i + 4, i + 6))
    IN  <<IF dashed = {} THEN None
          ELSE LET i == NthLeast(dashed, 1)
               IN  Some(Captured(s, i, i + 5, i + 8)),
          eight(compact, 0), eight(img_us, 4), eight(img_dash, 4)>>

IsCalendarDate(date) ==
    /\ date.month >= 1
    /\ date.month <= 12
    /\ date.day >= 1
    /\ date.day <= DaysInMonth(date.year, date.month)

\* the patterns whose candidate is a real calendar date
PatternsWithDate(s) ==
    {k \in 1..4 : /\ PatternCandidates(s)[k].some
                  /\ IsCalendarDate(PatternCandidates(s)[k].val)}

\* C12: the filename extractor returns the date of the first pattern, in
\* the order dashed, compact, IMG_, IMG-, whose candidate is a real calendar
\* date: an impossible candidate does not end the search, and the dashed
\* date wins over the compact one when both are real.
C12_FirstPatternWithRealDate ==
    (dateCall.called /\ PatternsWithDate(dateCall.filename) # {}) =>
        LET first == NthLeast(PatternsWithDate(dateCall.filename), 1)
        IN  /\ dateCall.byName.ok
            /\ dateCall.byName.val =
                   PatternCandidates(dateCall.filename)[first].val

\* the dashed candidate is an impossible date and a later pattern gives
\* the date
C12_Witness ==
    /\ dateCall.called
    /\ PatternCandidates(dateCall.filename)[1].some
    /\ 1 \notin PatternsWithDate(dateCall.filename)
    /\ PatternsWithDate(dateCall.filename) # {}
    /\ dateCall.byName.ok

\* C18: the filename extractor returns an error exactly when no pattern
\* has a candidate that is a real calendar date (none matches, or every
\* match is an impossible date); a date it returns has a month in 1..12
\* and a day within the length of the month.
C18_ErrorIffNoRealDate ==
    dateCall.called =>
        /\ ~dateCall.byName.ok <=> PatternsWithDate(dateCall.filename) = {}
        /\ ~dateCall.byName.ok => dateCall.byName.err # ""
        /\ dateCall.byName.ok =>
               /\ dateCall.byName.val.month \in 1..12
               /\ dateCall.byName.val.day \in
                      1..DaysInMonth(dateCall.byName.val.year,
                                     dateCall.byName.val.month)

\* a pattern matches, its candidate is an impossible date, and the
\* extractor returns an error
C18_Witness ==
    /\ dateCall.called
    /\ \E k \in 1..4 : PatternCandidates(dateCall.filename)[k].some
    /\ PatternsWithDate(dateCall.filename) = {}
    /\ ~dateCall.byName.ok

\* the text before the first whitespace, colons replaced by dashes
DatePortion(text) ==
    LET blanks == {i \in 1..Len(text) : IsWhitespace(text[i])}
        before == IF blanks = {} THEN text
                  ELSE SubSeq(text, 1, NthLeast(blanks, 1) - 1)
    IN  [i \in 1..Len(before) |-> IF before[i] = ":" THEN "-" ELSE before[i]]

\* the text is year-month-day in digits and names a day of the calendar
IsCalendarDateText(text) ==
    LET dashes == {i \in 1..Len(text) : text[i] = "-"}
    IN  /\ Cardinality(dashes) = 2
        /\ LET d1 == NthLeast(dashes, 1)
               d2 == NthLeast(dashes, 2)
               y == SubSeq(text, 1, d1 - 1)
               m == SubSeq(text, d1 + 1, d2 - 1)
               d == SubSeq(text, d2 + 1, Len(text))
           IN  /\ y # <<>> /\ Len(y) <= 4 /\ AllDigits(y)
               /\ m # <<>> /\ Len(m) <= 2 /\ AllDigits(m)
               /\ d # <<>> /\ Len(d) <= 2 /\ AllDigits(d)
               /\ IsCalendarDate([year |-> ParseNat(y), month |-> ParseNat(m),
                                  day |-> ParseNat(d)])

\* C19: the metadata extractor returns an error when the bytes are no
\* metadata container, when the DateTimeOriginal field is absent, and when
\* the date portion of the field is no calendar date; the file name has no
\* part in its result.
C19_MetadataErrors ==
    dateCall.called =>
        LET image_data == dateCall.image_data
        IN  /\ ~image_data.container => ~dateCall.exif.ok
            /\ (/\ image_data.container
                /\ ~image_data.fields["DateTimeOriginal"].some) =>
                   ~dateCall.exif.ok
            /\ (/\ image_data.container
                /\ image_data.fields["DateTimeOriginal"].some
                /\ ~IsCalendarDateText(DatePortion(
                        image_data.fields["DateTimeOriginal"].val))) =>
                   ~dateCall.exif.ok
            /\ ~dateCall.exif.ok => dateCall.exif.err # ""
            /\ \A other \in DateNames :
                   ExifDateExtractor_extract_date(other, image_data) =
                       dateCall.exif

\* the field holds month 13, the file name holds a date, and the extractor
\* returns an error
C19_Witness ==
    /\ dateCall.called
    /\ dateCall.image_data.container
    /\ dateCall.image_data.fields["DateTimeOriginal"].some
    /\ ~IsCalendarDateText(DatePortion(
            dateCall.image_data.fields["DateTimeOriginal"].val))
    /\ dateCall.byName.ok
    /\ ~dateCall.exif.ok

\* C13: for a name with no derivative marker that is no .gif, the filter
\* excludes exactly when the Software field holds "lightroom" or the Make
\* or the Model field holds "NIKON", in any letter case; bytes with no
\* readable metadata are included.
C13_MetadataRules ==
    (/\ filterCall.called
     /\ ~HasDerivativeMarker(filterCall.filename)
     /\ ~IsGif(filterCall.filename)) =>
        /\ (filterCall.result = FALSE) <=>
               LightroomOrNikon(filterCall.image_data)
        /\ ~filterCall.image_data.container => filterCall.result = TRUE

\* the Model field alone names Nikon and the entry is excluded
C13_Witness ==
    /\ filterCall.called
    /\ ~HasDerivativeMarker(filterCall.filename)
    /\ ~IsGif(filterCall.filename)
    /\ FieldHolds(filterCall.image_data, "Model", NIKON_upper)
    /\ ~FieldHolds(filterCall.image_data, "Make", NIKON_upper)
    /\ filterCall.result = FALSE

\* C14 as stated: a name that holds "-edited" in any mix of upper and lower
\* case is excluded whenever the name without the marker, removed in any
\* letter case, is in the filename set.
C14_EditedAnyCaseAsStated ==
    (/\ filterCall.called
     /\ HasEdited(filterCall.filename)
     /\ WithoutAnyCase(filterCall.filename, EDITED_upper) \in all_filenames) =>
        filterCall.result = FALSE

\* C15: a name that holds "-mix" in any letter case is excluded, whatever
\* the filename set holds, also when it holds this name alone.
C15_MixAlwaysExcluded ==
    (filterCall.called /\ HasMix(filterCall.filename)) =>
        filterCall.result = FALSE

\* a lower-case -mix name, alone in the filename set, is excluded
C15_Witness ==
    /\ filterCall.called
    /\ filterCall.filename = Name_a_mix
    /\ all_filenames = {Name_a_mix}
    /\ filterCall.result = FALSE

\* the last entry, in source order, that was copied to the path
LastCopied(full_path) ==
    CHOOSE k \in Positions("copied to") :
        /\ stdout[k].path = full_path
        /\ \A j \in Positions("copied to") :
               stdout[j].path = full_path => j <= k

\* a write of an entry after the k-th failed
WriteFailedAfter(k) ==
    \E j \in Positions("error") :
        j > k /\ stdout[j].reason = Reason_write_file

\* C16 as stated: the file at the target path of an organized entry holds
\* the bytes of the last entry organized to that path, and every organized
\* entry is counted in organized_files.
C16_LastOrganizedBytesAsStated ==
    /\ organized_files = Count("copied to")
    /\ \A k \in Positions("copied to") :
           /\ Relative(stdout[k].path) \in DOMAIN files
           /\ files[Relative(stdout[k].path)] =
                  source[LastCopied(stdout[k].path)].data

\* C16 amended: the file at the target path of an organized entry holds the
\* bytes of the last entry organized to that path, unchanged, unless the
\* write of a later entry failed after File::create, which leaves what the
\* failed write stored; every organized entry is counted.
C16_LastOrganizedBytesUnlessFailedWrite ==
    /\ organized_files = Count("copied to")
    /\ \A k \in Positions("copied to") :
           LET last == LastCopied(stdout[k].path)
               path == Relative(stdout[k].path)
           IN  /\ path \in DOMAIN files
               /\ \/ files[path] = source[last].data
                  \/ files[path] = Truncated /\ WriteFailedAfter(last)
    /\ \A path \in DOMAIN files :
           \/ \E k \in Positions("copied to") : Relative(stdout[k].path) = path
           \/ files[path] = Truncated

\* two entries with other bytes were organized to one path and the file
\* holds the bytes of the second
C16_Witness ==
    \E k1, k2 \in Positions("copied to") :
        /\ k1 < k2
        /\ stdout[k1].path = stdout[k2].path
        /\ source[k1].data # source[k2].data
        /\ files[Relative(stdout[k2].path)] = source[k2].data

\* C17: with filtering disabled should_include is true for every name and
\* all bytes, no entry is filtered out, and skipped_files is the number of
\* error messages.
C17_NoFilterSkipsOnlyErrors ==
    /\ \A filename \in FilterNames, image_data \in FilterImages :
           NoFilter_should_include(filename, image_data)
    /\ no_filter =>
           /\ Count("filtered out") = 0
           /\ skipped_files = Len(errors)
           /\ (Returned /\ result.ok) =>
                  result.val.skipped_files = Len(result.val.errors)

\* with filtering disabled, an entry the existing-collection filter would
\* exclude was copied and another entry failed
C17_Witness ==
    /\ no_filter
    /\ pc = "done"
    /\ result.ok
    /\ Len(result.val.errors) = 1
    /\ \E k \in Positions("copied to") :
           ~ExistingCollectionFilter_should_include(
                all_filenames, source[k].name, source[k].data)

\* the entries whose name holds -edited, in any letter case, and whose name
\* without the marker is the name of no entry
OrphanedEdits ==
    {k \in 1..Len(source) :
        /\ HasEdited(source[k].name)
        /\ \A j \in 1..Len(source) :
               source[j].name # WithoutAnyCase(source[k].name, EDITED_upper)}

\* C20 as stated: validate_no_orphaned_edits returns Ok exactly when every
\* entry whose name holds -edited, in any letter case, has its original
\* among the entries, and the message of the error holds the name of
\* every orphaned entry.
C20_ValidateAsStated ==
    (pc = "validated" /\ reads = <<TRUE>>) =>
        /\ result.ok <=> OrphanedEdits = {}
        /\ ~result.ok =>
               \A k \in OrphanedEdits : contains(result.err, source[k].name)

(***************************************************************************)
(* C21: when the archive reader returns, it returns exactly the members    *)
(* that are not directories and whose name ends, in any letter case, in    *)
(* one of the ten image extensions, in archive order, each with its name   *)
(* and bytes as stored; every other member is left out.                    *)
(***************************************************************************)
ImageExtensions ==
    {<<".", "J", "P", "G">>, <<".", "J", "P", "E", "G">>,
     <<".", "P", "N", "G">>, <<".", "H", "E", "I", "C">>,
     <<".", "H", "E", "I", "F">>, <<".", "G", "I", "F">>,
     <<".", "W", "E", "B", "P">>, <<".", "B", "M", "P">>,
     <<".", "T", "I", "F", "F">>, <<".", "T", "I", "F">>}

EndsInImageExtension(name) ==
    \E ext \in ImageExtensions :
        /\ Len(name) >= Len(ext)
        /\ to_uppercase(SubSeq(name, Len(name) - Len(ext) + 1, Len(name)))
               = ext

KeptMembers ==
    {k \in 1..Len(source) :
        ~source[k].is_dir /\ EndsInImageExtension(source[k].name)}

C21_ReaderKeepsExactlyTheImages ==
    (pc = "read" /\ result.ok) =>
        /\ Len(result.val) = Cardinality(KeptMembers)
        /\ \A j \in 1..Len(result.val) :
               /\ result.val[j].name = source[NthLeast(KeptMembers, j)].name
               /\ result.val[j].data = source[NthLeast(KeptMembers, j)].data

C21_Witness ==
    /\ pc = "read"
    /\ result.ok
    /\ Len(source) = 2
    /\ Len(result.val) = 1
    /\ result.val[1].name \in {Name_A_upper, Name_A_Jpeg, Name_a_HEIC}

(***************************************************************************)
(* C22: the run exits with status 0 when every enumeration of the source   *)
(* succeeded, whatever the outcomes of the entries, and with status 1      *)
(* exactly when an enumeration of the source failed; an entry is filtered  *)
(* out exactly when the no-filter flag is absent and the                   *)
(* existing-collection filter excludes it.                                 *)
(***************************************************************************)
SourceNames == {source[k].name : k \in 1..Len(source)}

\* C22, exit status and filter switch.  stdout grows by one line in a step:
\* the line of every entry is the last line of some state.
C22_ExitStatusAndFilterSwitch ==
    /\ pc = "done" =>
           /\ exit_code \in {0, 1}
           /\ exit_code = 0 <=> (Len(reads) = 2 /\ reads[1] /\ reads[2])
           /\ exit_code = 1 <=> (\E k \in 1..Len(reads) : ~reads[k])
    /\ pc # "done" => exit_code = 0 - 1
    /\ stdout # <<>> =>
           LET j == Len(stdout)
           IN  stdout[j].kind = "filtered out" <=>
                   /\ ~no_filter
                   /\ ~ExistingCollectionFilter_should_include(
                           SourceNames, source[j].name, source[j].data)

\* a run that exits with status 0 although no entry was organized: one
\* entry was filtered out and the other failed
C22_Witness ==
    /\ pc = "done"
    /\ exit_code = 0
    /\ organized_files = 0
    /\ Count("filtered out") = 1
    /\ Count("error") = 1

(***************************************************************************)
(* C23: the entries are processed one at a time in the order of the        *)
(* source; the calls made for one entry are an initial part of filter,     *)
(* date resolution, path generation, creation of the parent directory,     *)
(* file write; the date extractor is not called for an entry the filter    *)
(* excluded; write_file is called only right after create_directory for    *)
(* the parent of the target path has succeeded.                            *)
(***************************************************************************)
\* the stage that follows a stage within one entry
NextStage(op) ==
    CASE op = "should_include" -> "extract_date"
      [] op = "extract_date" -> "find_existing_date_directory"
      [] op = "find_existing_date_directory" -> "create_directory"
      [] op = "create_directory" -> "write_file"
      [] OTHER -> "none"

CallsOf(j) == SelectSeq(calls, LAMBDA c : c[2] = j)

Called(op, j) == \E k \in 1..Len(calls) : calls[k] = <<op, j>>

\* C23, order of the stages.  calls grows by one call in a step: every two
\* calls in a row are the last two calls of some state.
C23_StagesInOrder ==
    /\ Len(calls) = 1 => calls[1] = <<"should_include", 1>>
    /\ Len(calls) > 1 =>
           LET last == calls[Len(calls)]
               before == calls[Len(calls) - 1]
           IN  \/ last[2] = before[2] /\ last[1] = NextStage(before[1])
               \/ last[2] = before[2] + 1 /\ last[1] = "should_include"
    /\ \A j \in 1..Len(stdout) :
           /\ stdout[j].kind = "filtered out" => ~Called("extract_date", j)
           /\ (stdout[j].kind = "error"
                  /\ stdout[j].reason = Reason_create_directory)
                 => ~Called("write_file", j)
    /\ pc = "write_file" =>
           /\ calls[Len(calls)] = <<"create_directory", idx>>
           /\ path_parent(cur.target_path).val \in dirs
    /\ \A j \in 1..Len(entries) :
           Called("write_file", j) => Called("create_directory", j)

\* a run in which one entry was filtered out, then one went through all
\* five stages
C23_Witness ==
    /\ Len(stdout) = 2
    /\ stdout[1].kind = "filtered out"
    /\ stdout[2].kind = "copied to"
    /\ Len(CallsOf(1)) = 1
    /\ Len(CallsOf(2)) = 5

EndedWithoutWriting(j) ==
    \/ stdout[j].kind = "filtered out"
    \/ stdout[j].kind = "error" /\ stdout[j].reason = Reason_extract_date

C25_NoTreeCalls ==
    \A j \in 1..Len(stdout) :
        EndedWithoutWriting(j) =>
            /\ ~Called("create_directory", j)
            /\ ~Called("find_existing_date_directory", j)
            /\ ~Called("write_file", j)

C25_TreeAndCountersKept ==
    pc \in {"filter", "extract_date"} =>
        /\ dirs' = dirs
        /\ files' = files
        /\ organized_files' = organized_files
        /\ Len(errors') >= Len(errors)
        /\ SubSeq(errors', 1, Len(errors)) = errors

C25_SkippedEntryLeavesTreeAlone ==
    [](C25_NoTreeCalls) /\ [][C25_TreeAndCountersKept]_vars

\* after an entry was copied, the next one had no date: the run ends with
\* one organized file and the tree holds what the first entry put there
C25_Witness ==
    /\ Returned
    /\ Len(stdout) = 2
    /\ stdout[1].kind = "copied to"
    /\ stdout[2].kind = "error"
    /\ stdout[2].reason = Reason_extract_date
    /\ organized_files = 1
    /\ Len(errors) = 1
    /\ Called("write_file", 1)
    /\ ~Called("write_file", 2)

(***************************************************************************)
(* C26 as stated: with the existing-collection filter, when an entry with  *)
(* a derivative marker is filtered out and its name without the markers    *)
(* is in the source filename set, no entry bearing that name is filtered   *)
(* out.                                                                    *)
(***************************************************************************)
C26_OriginalSurvivesAsStated ==
    ~no_filter =>
        \A j \in 1..Len(stdout), k \in 1..Len(stdout) :
            (/\ stdout[j].kind = "filtered out"
             /\ HasDerivativeMarker(source[j].name)
             /\ StrippedOfMarkers(source[j].name) \in SourceNames
             /\ source[k].name = StrippedOfMarkers(source[j].name)) =>
                stdout[k].kind # "filtered out"

\* C26 amended: with the existing-collection filter, when an entry whose
\* name holds -EDITED and no -MIX is filtered out, the source holds an entry
\* bearing its name without the spellings "-edited", "-EDITED", "-Edited";
\* such an entry, when its own name holds neither -EDITED nor -MIX, is
\* filtered out exactly when its metadata names Lightroom or NIKON, and
\* reaches date resolution otherwise.
C26_OriginalDecidedByItsMetadata ==
    ~no_filter =>
        \A j \in 1..Len(stdout) :
            (/\ stdout[j].kind = "filtered out"
             /\ HasEdited(source[j].name)
             /\ ~HasMix(source[j].name)) =>
                /\ WithoutEditedSpellings(source[j].name) \in SourceNames
                /\ \A k \in 1..Len(stdout) :
                       (/\ source[k].name
                              = WithoutEditedSpellings(source[j].name)
                        /\ ~HasEdited(source[k].name)
                        /\ ~HasMix(source[k].name)) =>
                           /\ stdout[k].kind = "filtered out"
                                  <=> LightroomOrNikon(source[k].data)
                           /\ Called("extract_date", k)
                                  <=> ~LightroomOrNikon(source[k].data)

\* the original was copied and its -edited derivative was filtered out
C26_Witness ==
    /\ ~no_filter
    /\ Len(stdout) = 2
    /\ source[1].name = Name_a
    /\ source[2].name = Name_a_edited
    /\ stdout[1].kind = "copied to"
    /\ stdout[2].kind = "filtered out"

(***************************************************************************)
(* C27: a step of the run that starts with at most one directory under     *)
(* <year>/ whose name starts with a date string ends with at most one;     *)
(* and while that is so of every date string, all entries copied so far    *)
(* whose target is under the same year and the same date string were       *)
(* written below one and the same directory of the tree.                   *)
(***************************************************************************)
DateTextLen == 10

\* the date string a directory name starts with
DateTextOf(dir_name) == SubSeq(dir_name, 1, DateTextLen)

\* the directories under year/ whose name starts with the date string
DateDirectoriesIn(tree_dirs, year, date_text) ==
    {q \in tree_dirs : /\ Len(q) = 2
                       /\ q[1] = year
                       /\ starts_with(q[2], date_text)}

AtMostOnePerDate(tree_dirs) ==
    \A q \in tree_dirs :
        Len(q) = 2 =>
            Cardinality(DateDirectoriesIn(tree_dirs, q[1], DateTextOf(q[2])))
                <= 1

C27_NoSecondDirectoryInAStep == AtMostOnePerDate(dirs) => AtMostOnePerDate(dirs')

C27_SameDateSameDirectory ==
    AtMostOnePerDate(dirs) =>
        \A j \in Positions("copied to"), k \in Positions("copied to") :
            LET pj == Relative(stdout[j].path)
                pk == Relative(stdout[k].path)
            IN  /\ SubSeq(pj, 1, 2) \in dirs
                /\ Len(DateTextOf(pj[2])) = DateTextLen
                /\ (pj[1] = pk[1] /\ DateTextOf(pj[2]) = DateTextOf(pk[2]))
                       => pj[2] = pk[2]

ReportedOrphans ==
    LET orphans == push_orphans(source, source)
    IN  {k \in 1..Len(source) :
            \E i \in 1..Len(orphans) : orphans[i] = source[k].name}

EditedEntries == {k \in 1..Len(source) : HasEdited(source[k].name)}

BothCalled ==
    /\ pc = "validated"
    /\ reads = <<TRUE>>
    /\ filterCall.called

C29_ValidateAgreesWithFilterAsStated ==
    BothCalled =>
        /\ result.ok <=> \A k \in EditedEntries : ~filterCall.included[k]
        /\ \A k \in EditedEntries :
               filterCall.included[k] <=> (~result.ok /\ k \in ReportedOrphans)

\* C29 amended: the two agree on the entries whose name holds -edited and
\* no -MIX: the filter includes such an entry exactly when the validation
\* reports it; an entry whose name holds both is excluded by the filter
\* whether or not the validation reports it; so the validation returns Ok
\* exactly when the filter excludes every -edited entry only on a source
\* without such names.
C29_AgreeOnEditedWithoutMix ==
    BothCalled =>
        /\ \A k \in EditedEntries :
               IF HasMix(source[k].name)
               THEN ~filterCall.included[k]
               ELSE filterCall.included[k]
                        <=> (~result.ok /\ k \in ReportedOrphans)
        /\ (\A k \in EditedEntries : ~HasMix(source[k].name)) =>
               (result.ok <=> \A k \in EditedEntries : ~filterCall.included[k])
        /\ result.ok <=> ReportedOrphans = {}

\* of two -edited entries of one source the filter excludes one and lets
\* the other through, which the validation reports
C29_Witness ==
    /\ BothCalled
    /\ ~result.ok
    /\ \E k \in EditedEntries : filterCall.included[k] /\ k \in ReportedOrphans
    /\ \E k \in EditedEntries :
           ~filterCall.included[k] /\ k \notin ReportedOrphans

(***************************************************************************)
(* C30: a pattern whose leftmost match is an impossible date gives         *)
(* nothing, whatever its later matches in the name hold: the filename      *)
(* extractor then returns what the other patterns give, the date of the    *)
(* first of them whose leftmost match is a real date, or an error when     *)
(* there is none.                                                          *)
(***************************************************************************)
\* where pattern k matches in s, and where its year starts in a match
PatternMatches(s, k) ==
    {i \in 1..Len(s) :
        CASE k = 1 -> DashedAt(s, i)
          [] k = 2 -> CompactAt(s, i)
          [] k = 3 -> ImgUnderscoreAt(s, i)
          [] OTHER -> ImgDashAt(s, i)}

CapturedAt(s, k, i) ==
    IF k = 1 THEN Captured(s, i, i + 5, i + 8)
    ELSE IF k = 2 THEN Captured(s, i, i + 4, i + 6)
    ELSE Captured(s, i + 4, i + 8, i + 10)

\* a match of pattern k to the right of its leftmost match is a real date
LaterMatchIsRealDate(s, k) ==
    \E i \in PatternMatches(s, k) :
        /\ \E j \in PatternMatches(s, k) : j < i
        /\ IsCalendarDate(CapturedAt(s, k, i))

ImpossibleLeftmost(s, k) ==
    /\ PatternCandidates(s)[k].some
    /\ ~IsCalendarDate(PatternCandidates(s)[k].val)

C30_OnlyLeftmostMatchExamined ==
    dateCall.called =>
        \A k \in 1..4 :
            ImpossibleLeftmost(dateCall.filename, k) =>
                LET others == PatternsWithDate(dateCall.filename) \ {k}
                IN  IF others = {} THEN ~dateCall.byName.ok
                    ELSE /\ dateCall.byName.ok
                         /\ dateCall.byName.val =
                                PatternCandidates(dateCall.filename)
                                    [NthLeast(others, 1)].val

\* the leftmost dashed match is an impossible date, a later dashed match
\* is a real date, and the extractor returns an error
C30_Witness ==
    /\ dateCall.called
    /\ ImpossibleLeftmost(dateCall.filename, 1)
    /\ LaterMatchIsRealDate(dateCall.filename, 1)
    /\ ~dateCall.byName.ok

====
